---------------------------- MODULE Spec2Model ----------------------------
(***************************************************************************)
(* Model of trax/supervised/lr_schedules.py: MultifactorSchedule (formula  *)
(* parsing and per-step evaluation) and EvalAdjustingSchedule (the stall   *)
(* walk over the evaluation history).                                      *)
(*                                                                         *)
(* Numbers.  Python floats are modelled as exact rationals <<n, d>> in     *)
(* lowest terms with d > 0.  The input grids below are dyadic where a      *)
(* comparison or a division of the walk depends on them, so the float      *)
(* results coincide with the exact ones.  Square roots and cosines stay    *)
(* symbolic inside a value (see the value section).                        *)
(***************************************************************************)
EXTENDS Integers, Sequences, FiniteSets, TLC

VARIABLES hist, getAliases, walk, sched, factorsArg, out, ref

vars == <<hist, getAliases, walk, sched, factorsArg, out, ref>>

None == [kind |-> "none"]

(***************************************************************************)
(* Bounds of the model.                                                    *)
(***************************************************************************)
MaxPoints == 5
MaxFactors == 2

(***************************************************************************)
(* Rational arithmetic standing for Python float arithmetic.               *)
(***************************************************************************)
Abs(x) == IF x < 0 THEN -x ELSE x

RECURSIVE GCD(_, _)
GCD(a, b) == IF b = 0 THEN a ELSE GCD(b, a % b)

Rat(n, d) ==
  LET s == IF d < 0 THEN -1 ELSE 1
      g == GCD(Abs(n), Abs(d))
  IN  <<(s * n) \div g, (s * d) \div g>>

RInt(k) == <<k, 1>>
RAdd(a, b) == Rat(a[1] * b[2] + b[1] * a[2], a[2] * b[2])
RMul(a, b) == Rat(a[1] * b[1], a[2] * b[2])
RDiv(a, b) == Rat(a[1] * b[2], a[2] * b[1])
RLess(a, b) == a[1] * b[2] < b[1] * a[2]
RLeq(a, b) == a[1] * b[2] <= b[1] * a[2]
RMin(a, b) == IF RLess(b, a) THEN b ELSE a
RMax(a, b) == IF RLess(a, b) THEN b ELSE a

RECURSIVE RPow(_, _)
RPow(a, k) == IF k = 0 THEN RInt(1) ELSE RMul(a, RPow(a, k - 1))

(***************************************************************************)
(* Python list helpers.                                                    *)
(***************************************************************************)
Last(s) == s[Len(s)]
Front(s) == SubSeq(s, 1, Len(s) - 1)


(***************************************************************************)
(* Learning-rate values.  A finite value is c * sqrt(rad) * PROD over p in *)
(* cos of 0.5 * (1 + cos(pi * p)), with c and rad rationals and the        *)
(* radical kept only while rad is not a perfect square.  "inf" and "nan"   *)
(* are the IEEE results of the array backend dividing by sqrt(0).  All     *)
(* parameters of the model are non-negative, so no sign is tracked.        *)
(***************************************************************************)
RECURSIVE SqrtSearch(_, _, _)
SqrtSearch(n, lo, hi) ==
  IF lo >= hi THEN lo
  ELSE LET mid == (lo + hi + 1) \div 2
       IN  IF mid * mid <= n THEN SqrtSearch(n, mid, hi)
           ELSE SqrtSearch(n, lo, mid - 1)

\* floor(sqrt(n)); 46340 is the largest root whose square is a 32-bit integer
ISqrt(n) == SqrtSearch(n, 0, IF n < 46340 THEN n ELSE 46340)
IsSquare(n) == ISqrt(n) * ISqrt(n) = n

VInf == [kind |-> "inf"]
VNan == [kind |-> "nan"]
VFin(c) == [kind |-> "fin", c |-> c, rad |-> RInt(1), cos |-> <<>>]
VOne == VFin(RInt(1))
VZero == VFin(RInt(0))

VNorm(v) ==
  IF v.c[1] = 0 THEN VZero
  ELSE IF IsSquare(v.rad[1]) /\ IsSquare(v.rad[2])
       THEN [v EXCEPT !.c = RMul(v.c, Rat(ISqrt(v.rad[1]), ISqrt(v.rad[2]))),
                      !.rad = RInt(1)]
       ELSE v

\* ret *= q, for a rational q >= 0
VMulRat(v, q) ==
  CASE v.kind = "fin" -> VNorm([v EXCEPT !.c = RMul(v.c, q)])
    [] v.kind = "inf" -> IF q[1] = 0 THEN VNan ELSE VInf
    [] OTHER -> VNan

\* ret *= sqrt(a), for an integer a >= 0
VMulSqrt(v, a) ==
  CASE v.kind = "fin" ->
         IF a = 0 THEN VZero ELSE VNorm([v EXCEPT !.rad = RMul(v.rad, RInt(a))])
    [] v.kind = "inf" -> IF a = 0 THEN VNan ELSE VInf
    [] OTHER -> VNan

\* ret /= sqrt(a), for an integer a >= 0 (array division: no exception at 0)
VDivSqrt(v, a) ==
  CASE v.kind = "fin" ->
         IF a = 0 THEN (IF v.c[1] = 0 THEN VNan ELSE VInf)
         ELSE VNorm([v EXCEPT !.rad = RDiv(v.rad, RInt(a))])
    [] v.kind = "inf" -> VInf
    [] OTHER -> VNan

\* ret *= 0.5 * (1 + cos(pi * p)), for a rational 0 <= p < 1 (the factor is > 0)
VMulCos(v, p) ==
  CASE v.kind = "fin" ->
         IF v.c[1] = 0 THEN VZero
         ELSE IF p[1] = 0 THEN v
         ELSE IF p = <<1, 2>> THEN VMulRat(v, <<1, 2>>)
         ELSE [v EXCEPT !.cos = Append(v.cos, p)]
    [] v.kind = "inf" -> VInf
    [] OTHER -> VNan

(***************************************************************************)
(* Strings are sequences of atoms: "*", " " and whole words.               *)
(***************************************************************************)
HasStar(s) == \E i \in 1..Len(s) : s[i] = "*"
FirstStar(s) == CHOOSE i \in 1..Len(s) : s[i] = "*" /\ \A j \in 1..(i - 1) : s[j] # "*"

\* str.split('*')
RECURSIVE Split(_)
Split(s) ==
  IF ~HasStar(s) THEN <<s>>
  ELSE <<SubSeq(s, 1, FirstStar(s) - 1)>> \o Split(SubSeq(s, FirstStar(s) + 1, Len(s)))

\* str.strip()
RECURSIVE LStrip(_)
LStrip(t) == IF t # <<>> /\ t[1] = " " THEN LStrip(Tail(t)) ELSE t

RECURSIVE RStrip(_)
RStrip(t) == IF t # <<>> /\ Last(t) = " " THEN RStrip(Front(t)) ELSE t

Strip(t) == RStrip(LStrip(t))

\* the Python string a sequence of atoms stands for
RECURSIVE Text(_)
Text(t) == IF t = <<>> THEN "" ELSE t[1] \o Text(Tail(t))

ParseFactors(factors) ==
  LET toks == Split(factors) IN [i \in 1..Len(toks) |-> Text(Strip(toks[i]))]

(***************************************************************************)
(* MultifactorSchedule: the closure it returns and learning_rate(step).    *)
(***************************************************************************)
DefaultFactors ==
  <<"constant", " ", "*", " ", "linear_warmup", " ", "*", " ", "rsqrt_decay">>
DefaultConstant == <<1, 10>>
DefaultWarmupSteps == 400
DefaultDecayFactor == <<1, 2>>
DefaultStepsPerDecay == 20000
DefaultStepsPerCycle == 100000

MultifactorSchedule_Eager(factors, constant, warmup_steps, decay_factor, steps_per_decay, steps_per_cycle) ==
  LET fs == ParseFactors(factors)
      known == {"constant", "linear_warmup", "rsqrt_decay",
                "rsqrt_normalized_decay", "decay_every", "cosine_decay"}
  IN  IF \E i \in 1..Len(fs) : fs[i] \notin known
      THEN [kind |-> "ValueError",
            name |-> fs[CHOOSE i \in 1..Len(fs) :
                          fs[i] \notin known /\ \A j \in 1..(i - 1) : fs[j] \in known]]
      ELSE [kind |-> "closure", factors |-> fs, constant |-> constant,
            warmup_steps |-> warmup_steps, decay_factor |-> decay_factor,
            steps_per_decay |-> steps_per_decay, steps_per_cycle |-> steps_per_cycle]

MultifactorSchedule(factors, constant, warmup_steps, decay_factor, steps_per_decay, steps_per_cycle) ==
  [kind |-> "closure", factors |-> ParseFactors(factors), constant |-> constant,
   warmup_steps |-> warmup_steps, decay_factor |-> decay_factor,
   steps_per_decay |-> steps_per_decay, steps_per_cycle |-> steps_per_cycle]

ZeroDivisionError == [kind |-> "ZeroDivisionError"]
ValueError(name) == [kind |-> "ValueError", name |-> name]
Ok(v) == [kind |-> "ok", value |-> v]

Max(a, b) == IF a < b THEN b ELSE a

\* progress % 1.0 for a rational progress >= 0
Frac(p) == Rat(p[1] % p[2], p[2])

LinearWarmup_NoClamp(env, step, ret) ==
  IF env.warmup_steps = 0 THEN ZeroDivisionError
  ELSE Ok(VMulRat(ret, Rat(step, env.warmup_steps)))

LinearWarmup(env, step, ret) ==
  IF env.warmup_steps = 0 THEN ZeroDivisionError
  ELSE Ok(VMulRat(ret, RMin(RInt(1), Rat(step, env.warmup_steps))))

DecayEvery_Smooth(env, step, ret) ==
  IF env.steps_per_decay = 0 THEN ZeroDivisionError
  ELSE Ok(VMulRat(ret, RPow(env.decay_factor,
                            (step + env.steps_per_decay - 1) \div env.steps_per_decay)))

DecayEvery(env, step, ret) ==
  IF env.steps_per_decay = 0 THEN ZeroDivisionError
  ELSE Ok(VMulRat(ret, RPow(env.decay_factor, step \div env.steps_per_decay)))

CosineDecay(env, step, ret) ==
  IF env.steps_per_cycle = 0 THEN ZeroDivisionError
  ELSE LET progress == RMax(RInt(0), Rat(step - env.warmup_steps, env.steps_per_cycle))
       IN  Ok(VMulCos(ret, Frac(progress)))

\* one pass of the loop body over `name`: the new ret, or the exception raised
ApplyFactor(env, step, name, ret) ==
  CASE name = "constant" -> Ok(VMulRat(ret, env.constant))
    [] name = "linear_warmup" -> LinearWarmup(env, step, ret)
    [] name = "rsqrt_decay" -> Ok(VDivSqrt(ret, Max(step, env.warmup_steps)))
    [] name = "rsqrt_normalized_decay" ->
         Ok(VDivSqrt(VMulSqrt(ret, env.warmup_steps), Max(step, env.warmup_steps)))
    [] name = "decay_every" -> DecayEvery(env, step, ret)
    [] name = "cosine_decay" -> CosineDecay(env, step, ret)
    [] OTHER -> ValueError(name)

RECURSIVE FactorLoop(_, _, _, _)
FactorLoop(env, step, i, ret) ==
  IF i > Len(env.factors) THEN Ok(ret)
  ELSE LET r == ApplyFactor(env, step, env.factors[i], ret)
       IN  IF r.kind = "ok" THEN FactorLoop(env, step, i + 1, r.value) ELSE r

\* jnp.asarray(ret, dtype=jnp.float32): the value keeps its real-number reading
AsFloat32(v) == [dtype |-> "float32", value |-> v]

learning_rate(env, step) ==
  LET r == FactorLoop(env, step, 1, VOne)
  IN  IF r.kind = "ok"
      THEN [kind |-> "ok", learning_rate |-> AsFloat32(r.value)]
      ELSE r

\* the closure after a call: learning_rate assigns none of the captured variables
ClosureAfterCall_Consumes(env, step) ==
  [env EXCEPT !.factors = IF env.factors = <<>> THEN <<>> ELSE Tail(env.factors)]

ClosureAfterCall(env, step) == env

(***************************************************************************)
(* History (trax.history.History): per (mode, metric) a list of            *)
(* (step, value) points, oldest first.  `hist` is the list stored for the  *)
(* (history_mode, metric) the schedule asks for.  get returns the ordered  *)
(* sequence of the points.  Whether the object it returns is the stored    *)
(* list itself or a sequence of the caller's own is a property of the      *)
(* History class, which lr_schedules.py does not decide: getAliases holds  *)
(* it, and both kinds of History are modelled.                             *)
(***************************************************************************)
HistoryGet(h) == h

HistoryAppend(h, step, value) == Append(h, <<step, value>>)

(***************************************************************************)
(* EvalAdjustingSchedule: the stall walk.  A walk state holds the locals   *)
(* metrics, cur, steps_without_improvement and adjusted; log records, per  *)
(* loop iteration, the values compared and the counter before the          *)
(* comparison, after the if/else and after the decrease check.             *)
(***************************************************************************)
NoImprovement_NoMargin(cur, prev, improvement_margin) == RLess(cur, prev)

NoImprovement(cur, prev, improvement_margin) ==
  RLess(cur, RMul(prev, RAdd(RInt(1), improvement_margin)))

\* lines 156-161: adjusted = constant; counter = 0; cur = metrics.pop()[1]
WalkStart(metrics, constant) ==
  [metrics |-> Front(metrics), cur |-> Last(metrics)[2],
   steps_without_improvement |-> 0, adjusted |-> constant, log |-> <<>>]

WalkBody_NoReset(st, steps_to_decrease, improvement_margin, decrease_rate) ==
  LET prev == Last(st.metrics)[2]
      stalled == NoImprovement(st.cur, prev, improvement_margin)
      mid == IF stalled THEN st.steps_without_improvement + 1 ELSE 0
      dec == mid >= steps_to_decrease
  IN  [metrics |-> Front(st.metrics),
       cur |-> IF dec \/ ~stalled THEN prev ELSE st.cur,
       steps_without_improvement |-> mid,
       adjusted |-> IF dec THEN RDiv(st.adjusted, decrease_rate) ELSE st.adjusted,
       log |-> Append(st.log, [cur |-> st.cur, prev |-> prev,
                               before |-> st.steps_without_improvement,
                               mid |-> mid, after |-> mid, decreased |-> dec])]

WalkBody_StrictThreshold(st, steps_to_decrease, improvement_margin, decrease_rate) ==
  LET prev == Last(st.metrics)[2]
      stalled == NoImprovement(st.cur, prev, improvement_margin)
      mid == IF stalled THEN st.steps_without_improvement + 1 ELSE 0
      dec == mid > steps_to_decrease
  IN  [metrics |-> Front(st.metrics),
       cur |-> IF dec \/ ~stalled THEN prev ELSE st.cur,
       steps_without_improvement |-> IF dec THEN 0 ELSE mid,
       adjusted |-> IF dec THEN RDiv(st.adjusted, decrease_rate) ELSE st.adjusted,
       log |-> Append(st.log, [cur |-> st.cur, prev |-> prev,
                               before |-> st.steps_without_improvement,
                               mid |-> mid, after |-> IF dec THEN 0 ELSE mid,
                               decreased |-> dec])]

\* lines 164-173: one iteration of the while loop
WalkBody(st, steps_to_decrease, improvement_margin, decrease_rate) ==
  LET prev == Last(st.metrics)[2]
      stalled == NoImprovement(st.cur, prev, improvement_margin)
      mid == IF stalled THEN st.steps_without_improvement + 1 ELSE 0
      dec == mid >= steps_to_decrease
  IN  [metrics |-> Front(st.metrics),
       cur |-> IF dec \/ ~stalled THEN prev ELSE st.cur,
       steps_without_improvement |-> IF dec THEN 0 ELSE mid,
       adjusted |-> IF dec THEN RDiv(st.adjusted, decrease_rate) ELSE st.adjusted,
       log |-> Append(st.log, [cur |-> st.cur, prev |-> prev,
                               before |-> st.steps_without_improvement,
                               mid |-> mid, after |-> IF dec THEN 0 ELSE mid,
                               decreased |-> dec])]

WalkContinues_ToOldest(st) == Len(st.metrics) > 0

\* line 162: while len(metrics) > 1
WalkContinues(st) == Len(st.metrics) > 1

RECURSIVE WalkLoop(_, _, _, _)
WalkLoop(st, steps_to_decrease, improvement_margin, decrease_rate) ==
  IF WalkContinues(st)
  THEN WalkLoop(WalkBody(st, steps_to_decrease, improvement_margin, decrease_rate),
                steps_to_decrease, improvement_margin, decrease_rate)
  ELSE st

ShortHistory_AtMostTwo(metrics) == Len(metrics) <= 2

\* line 157: if len(metrics) < 2
ShortHistory(metrics) == Len(metrics) < 2

AdjustedSchedule_DefaultConstant(adjusted) ==
  MultifactorSchedule(DefaultFactors, DefaultConstant, DefaultWarmupSteps,
                      DefaultDecayFactor, DefaultStepsPerDecay, DefaultStepsPerCycle)

\* the schedule both return statements build: MultifactorSchedule(history,
\* constant=adjusted), every other parameter at its default
AdjustedSchedule(adjusted) ==
  MultifactorSchedule(DefaultFactors, adjusted, DefaultWarmupSteps, DefaultDecayFactor,
                      DefaultStepsPerDecay, DefaultStepsPerCycle)

\* the whole function on the list `metrics` that history.get returned: the
\* returned schedule, the list as the pops leave it, and the walk's record
EvalAdjustingSchedule(metrics, constant, steps_to_decrease, improvement_margin, decrease_rate) ==
  IF ShortHistory(metrics)
  THEN [schedule |-> AdjustedSchedule(constant), metrics |-> metrics,
        adjusted |-> constant, log |-> <<>>]
  ELSE LET st == WalkLoop(WalkStart(metrics, constant), steps_to_decrease,
                          improvement_margin, decrease_rate)
       IN  [schedule |-> AdjustedSchedule(st.adjusted), metrics |-> st.metrics,
            adjusted |-> st.adjusted, log |-> st.log]

\* the History's list after EvalAdjustingSchedule(history, ...): the function
\* calls history.get alone and pops from the object it got, without copying it
\* (lines 155-164); the pops reach the store when that object is the stored list
HistoryAfterEval(h, metricsLeft, aliases) == IF aliases THEN metricsLeft ELSE h

(***************************************************************************)
(* Inputs.                                                                 *)
(***************************************************************************)
MetricValues == {<<0, 1>>, <<1, 2>>, <<1, 1>>}
EvalConstants == {<<1, 1>>, DefaultConstant}
StepsToDecrease == {0, 1, 2}
ImprovementMargins == {<<0, 1>>, <<1, 1000>>, <<1, 2>>}
DecreaseRates == {<<2, 1>>}

Names == {"constant", "linear_warmup", "rsqrt_decay", "rsqrt_normalized_decay",
          "decay_every", "cosine_decay", "bogus"}
TokenTexts == {<<n>> : n \in Names}
              \cup {<<>>, <<" ">>, <<" ", "constant", " ">>, <<"bogus", " ">>}

RECURSIVE Join(_)
Join(toks) ==
  IF Len(toks) = 1 THEN toks[1] ELSE toks[1] \o <<"*">> \o Join(Tail(toks))

FactorStrings ==
  {Join(toks) : toks \in UNION {[1..k -> TokenTexts] : k \in 1..MaxFactors}}

ScheduleConstants == {<<1, 10>>}
WarmupSteps == {0, 400}
DecayFactors == {<<1, 2>>}
StepsPerDecay == {0, 1000}
StepsPerCycle == {1000}
Steps == {0, 200, 400, 800, 999, 1000, 2500}

(***************************************************************************)
(* State.  hist: the History's stored list.  getAliases: whether the       *)
(* History's get hands out that list itself.  walk: the frame of the       *)
(* EvalAdjustingSchedule call that has just returned (its arguments, the   *)
(* list it was given, its log); the next operation discards it.  sched:    *)
(* the schedule closure held by the caller.  factorsArg: the factors       *)
(* string it was built from.  out: the latest learning_rate call, ref: an  *)
(* earlier one.                                                            *)
(***************************************************************************)
Init ==
  /\ hist = <<>>
  /\ getAliases \in BOOLEAN
  /\ walk = None
  /\ sched = None
  /\ factorsArg = None
  /\ out = None
  /\ ref = None

\* the trainer records an evaluation: history.append(mode, metric, step, value)
AppendPoint ==
  /\ Len(hist) < MaxPoints
  /\ \E value \in MetricValues :
       hist' = HistoryAppend(hist, Len(hist) + 1, value)
  /\ walk' = None
  /\ UNCHANGED <<getAliases, sched, factorsArg, out, ref>>

\* EvalAdjustingSchedule(history, constant, steps_to_decrease, ...).  The pops
\* act on the object history.get returned.
BuildEvalAdjusting ==
  \E constant \in EvalConstants, steps_to_decrease \in StepsToDecrease,
     improvement_margin \in ImprovementMargins, decrease_rate \in DecreaseRates :
    LET metrics == HistoryGet(hist)
        r == EvalAdjustingSchedule(metrics, constant, steps_to_decrease,
                                   improvement_margin, decrease_rate)
    IN  /\ sched' = r.schedule
        /\ hist' = HistoryAfterEval(hist, r.metrics, getAliases)
        /\ walk' = [kind |-> "walk", metrics |-> metrics, constant |-> constant,
                    steps_to_decrease |-> steps_to_decrease,
                    improvement_margin |-> improvement_margin,
                    decrease_rate |-> decrease_rate,
                    adjusted |-> r.adjusted, log |-> r.log]
        /\ UNCHANGED <<getAliases, factorsArg, out, ref>>

\* MultifactorSchedule(history, factors, constant, ...), once per schedule
BuildMultifactor ==
  /\ sched = None
  /\ \E factors \in FactorStrings, constant \in ScheduleConstants,
        warmup_steps \in WarmupSteps, decay_factor \in DecayFactors,
        steps_per_decay \in StepsPerDecay, steps_per_cycle \in StepsPerCycle :
       /\ sched' = MultifactorSchedule(factors, constant, warmup_steps, decay_factor,
                                       steps_per_decay, steps_per_cycle)
       /\ factorsArg' = [kind |-> "str", atoms |-> factors]
  /\ UNCHANGED <<hist, getAliases, walk, out, ref>>

\* learning_rate(step) on the schedule held; the caller may keep the result
\* of the call before as a reference
CallSchedule ==
  /\ sched.kind = "closure"
  /\ \E step \in Steps :
       /\ out' = [kind |-> "call", step |-> step, result |-> learning_rate(sched, step)]
       /\ sched' = ClosureAfterCall(sched, step)
  /\ ref' \in {ref, out}
  /\ UNCHANGED <<hist, getAliases, walk, factorsArg>>

NextEval == AppendPoint \/ BuildEvalAdjusting
NextSchedule == BuildMultifactor \/ CallSchedule

SpecEval == Init /\ [][NextEval]_vars
SpecSchedule == Init /\ [][NextSchedule]_vars

(***************************************************************************)
(* Properties.                                                             *)
(***************************************************************************)
Walked == walk.kind = "walk"
Called == out.kind = "call"
Values(metrics) == [i \in 1..Len(metrics) |-> metrics[i][2]]
NumDecreases(log) == Cardinality({i \in 1..Len(log) : log[i].decreased})
Half == <<1, 2>>
One == <<1, 1>>

\* the comparison of one logged iteration, from the values it compared
StalledAt(e) == RLess(e.cur, RMul(e.prev, RAdd(One, walk.improvement_margin)))

FourHalves ==
  /\ Walked
  /\ Values(walk.metrics) = <<Half, Half, Half, Half>>
  /\ walk.steps_to_decrease = 2
  /\ walk.decrease_rate = <<2, 1>>
  /\ walk.constant = One

\* C2 as stated: on [0.5, 0.5, 0.5, 0.5] with steps_to_decrease=2,
\* decrease_rate=2.0, constant=1.0 and any non-negative margin the adjusted
\* constant is 0.5, by exactly one decrease.
C2_FourTies_AnyMargin ==
  FourHalves =>
    /\ walk.adjusted = Half
    /\ sched.constant = Half
    /\ NumDecreases(walk.log) = 1

\* C2 amended: the same, for a positive improvement_margin.
C2_FourTies ==
  (FourHalves /\ walk.improvement_margin[1] > 0) =>
    /\ walk.adjusted = Half
    /\ sched.constant = Half
    /\ NumDecreases(walk.log) = 1
    /\ walk.log[Len(walk.log)].decreased
    /\ walk.log[Len(walk.log)].after = 0

C2_Witness ==
  /\ FourHalves
  /\ walk.improvement_margin = <<1, 1000>>
  /\ walk.adjusted = Half

\* C3: with fewer than 2 points the schedule returned is the
\* MultifactorSchedule of the unadjusted constant and the default formula and
\* parameters; no comparison is made and no decrease applied.
C3_ShortHistory ==
  (Walked /\ Len(walk.metrics) < 2) =>
    /\ sched = [kind |-> "closure",
                factors |-> <<"constant", "linear_warmup", "rsqrt_decay">>,
                constant |-> walk.constant, warmup_steps |-> 400,
                decay_factor |-> Half, steps_per_decay |-> 20000,
                steps_per_cycle |-> 100000]
    /\ walk.adjusted = walk.constant
    /\ walk.log = <<>>

C3_Witness ==
  /\ Walked
  /\ Len(walk.metrics) = 1
  /\ walk.constant = One
  /\ sched.constant = One

KnownFactors == {"constant", "linear_warmup", "rsqrt_decay", "rsqrt_normalized_decay",
                 "decay_every", "cosine_decay"}
HasUnknown(fs) == \E i \in 1..Len(fs) : fs[i] \notin KnownFactors
FirstUnknownAt(fs) ==
  CHOOSE i \in 1..Len(fs) : fs[i] \notin KnownFactors
                            /\ \A j \in 1..(i - 1) : fs[j] \in KnownFactors
\* a recognised factor before position i divides by a zero parameter
RaisesBefore(env, i) ==
  \E j \in 1..(i - 1) :
    \/ env.factors[j] = "linear_warmup" /\ env.warmup_steps = 0
    \/ env.factors[j] = "decay_every" /\ env.steps_per_decay = 0
    \/ env.factors[j] = "cosine_decay" /\ env.steps_per_cycle = 0

\* C4 as stated: every call of a schedule whose formula holds an unknown name
\* fails with the unknown-factor error carrying the first offending name.
C4_AlwaysUnknownFactorError ==
  (Called /\ HasUnknown(sched.factors)) =>
    out.result = [kind |-> "ValueError",
                  name |-> sched.factors[FirstUnknownAt(sched.factors)]]

\* C4 amended: construction never rejects a factors string; every call of a
\* schedule whose formula holds an unknown name raises and returns no learning
\* rate; the error is the unknown-factor error carrying the first offending
\* trimmed name unless a recognised factor before it raises first (a division
\* by a zero warmup_steps, steps_per_decay or steps_per_cycle).
C4_DeferredUnknownFactor ==
  /\ (factorsArg.kind = "str" => sched.kind = "closure")
  /\ (Called /\ HasUnknown(sched.factors)) =>
       LET i == FirstUnknownAt(sched.factors)
       IN  /\ out.result.kind # "ok"
           /\ ~RaisesBefore(sched, i) =>
                out.result = [kind |-> "ValueError", name |-> sched.factors[i]]
           /\ RaisesBefore(sched, i) => out.result.kind = "ZeroDivisionError"

C4_Witness ==
  /\ factorsArg.kind = "str"
  /\ factorsArg.atoms = <<"constant", "*">>
  /\ Called
  /\ out.result = [kind |-> "ValueError", name |-> ""]

\* C5: two calls of the schedule with the same step return the same output,
\* whatever calls were made in between.
C5_Idempotent ==
  (Called /\ ref.kind = "call" /\ ref.step = out.step) => ref.result = out.result

C5_Witness ==
  /\ Called
  /\ ref.kind = "call"
  /\ ref.step = out.step
  /\ out.result.kind = "ok"
  /\ Len(sched.factors) = 2

\* C6 as stated: for every non-negative margin a tie (cur = prev) increments
\* the stall counter.
C6_TieStalls_AnyMargin ==
  Walked =>
    \A i \in 1..Len(walk.log) :
      walk.log[i].cur = walk.log[i].prev => walk.log[i].mid = walk.log[i].before + 1

\* C6 amended: a tie increments the stall counter when the margin is positive
\* and the tied value is positive.
C6_TieStalls ==
  Walked =>
    \A i \in 1..Len(walk.log) :
      (/\ walk.log[i].cur = walk.log[i].prev
       /\ walk.improvement_margin[1] > 0
       /\ walk.log[i].prev[1] > 0) => walk.log[i].mid = walk.log[i].before + 1

C6_Witness ==
  /\ Walked
  /\ walk.improvement_margin[1] > 0
  /\ \E i \in 1..Len(walk.log) :
       /\ walk.log[i].cur = walk.log[i].prev
       /\ walk.log[i].prev[1] > 0
       /\ walk.log[i].before = 1
       /\ walk.log[i].mid = 2

DecayOnly ==
  /\ Called
  /\ sched.factors = <<"decay_every">>
  /\ sched.steps_per_decay > 0

SameInterval(s1, s2, width) ==
  \E k \in 0..3 : /\ k * width <= s1 /\ s1 < (k + 1) * width
                  /\ k * width <= s2 /\ s2 < (k + 1) * width

\* C7: for factors = "decay_every" the multiplier at step s is decay_factor to
\* the power floor(s / steps_per_decay): 1 at 999, 0.5 at 1000 and 0.25 at 2500
\* for decay_factor 0.5 and steps_per_decay 1000, and the same for all steps of
\* one interval [k * steps_per_decay, (k + 1) * steps_per_decay).
C7_DecayEvery ==
  DecayOnly =>
    LET spd == sched.steps_per_decay
        s == out.step
    IN  /\ out.result.kind = "ok"
        /\ \A k \in 0..3 :
             (k * spd <= s /\ s < (k + 1) * spd) =>
               out.result.learning_rate.value = VFin(RPow(sched.decay_factor, k))
        /\ (sched.decay_factor = Half /\ spd = 1000) =>
             /\ s = 999 => out.result.learning_rate.value = VFin(One)
             /\ s = 1000 => out.result.learning_rate.value = VFin(Half)
             /\ s = 2500 => out.result.learning_rate.value = VFin(<<1, 4>>)
        /\ (ref.kind = "call" /\ SameInterval(ref.step, s, spd)) =>
             ref.result = out.result

C7_Witness ==
  /\ DecayOnly
  /\ out.step = 2500
  /\ out.result.learning_rate.value = VFin(<<1, 4>>)
  /\ ref.kind = "call"
  /\ ref.step = 1000
  /\ ref.result.learning_rate.value = VFin(Half)

WarmupOnly ==
  /\ Called
  /\ sched.factors = <<"linear_warmup">>
  /\ sched.warmup_steps > 0

\* C8: for factors = "linear_warmup" the result at step s is
\* min(1, s / warmup_steps): 0 at 0, 1 at 400 and at 800 for warmup_steps 400;
\* it lies in [0, 1], is non-decreasing in the step and is 1 from warmup_steps on.
C8_LinearWarmup ==
  WarmupOnly =>
    LET ws == sched.warmup_steps
        s == out.step
        v == out.result.learning_rate.value
    IN  /\ out.result.kind = "ok"
        /\ v.kind = "fin" /\ v.rad = One /\ v.cos = <<>>
        /\ RLeq(<<0, 1>>, v.c) /\ RLeq(v.c, One)
        /\ s >= ws => v.c = One
        /\ s <= ws => v.c[1] * ws = s * v.c[2]
        /\ ws = 400 => /\ s = 0 => v.c = <<0, 1>>
                       /\ s = 400 => v.c = One
                       /\ s = 800 => v.c = One
        /\ (ref.kind = "call" /\ ref.step <= s) =>
             RLeq(ref.result.learning_rate.value.c, v.c)

C8_Witness ==
  /\ WarmupOnly
  /\ sched.warmup_steps = 400
  /\ out.step = 800
  /\ out.result.learning_rate.value = VFin(One)
  /\ ref.kind = "call"
  /\ ref.step = 200
  /\ ref.result.learning_rate.value = VFin(Half)

\* every point is at least (1 + improvement_margin) times its predecessor
Improving(vs, margin) ==
  \A k \in 2..Len(vs) : ~RLess(vs[k], RMul(vs[k - 1], RAdd(One, margin)))

\* C9: for steps_to_decrease >= 1, a history in which every point improves on
\* its predecessor by the margin yields the unadjusted constant, and every
\* division by decrease_rate ends a run of steps_to_decrease consecutive
\* comparisons with cur < prev * (1 + improvement_margin) since the last reset.
C9_DecreaseOnlyAfterStall ==
  (Walked /\ walk.steps_to_decrease >= 1) =>
    /\ Improving(Values(walk.metrics), walk.improvement_margin) =>
         (walk.adjusted = walk.constant /\ sched.constant = walk.constant)
    /\ \A i \in 1..Len(walk.log) :
         walk.log[i].decreased =>
           /\ i >= walk.steps_to_decrease
           /\ \A j \in (i - walk.steps_to_decrease + 1)..i :
                /\ StalledAt(walk.log[j])
                /\ j < i => ~walk.log[j].decreased

C9_Witness ==
  /\ Walked
  /\ walk.steps_to_decrease = 2
  /\ Len(walk.log) = 3
  /\ ~StalledAt(walk.log[1])
  /\ walk.log[3].decreased
  /\ walk.adjusted = RDiv(walk.constant, walk.decrease_rate)

\* C10: on n >= 2 points the walk makes exactly n - 2 comparisons, taking the
\* points n-1 down to 2 as prev and never the oldest; 2 points yield the
\* unadjusted constant; for steps_to_decrease >= 1 the adjusted constant is
\* constant / decrease_rate^k with k <= floor((n - 2) / steps_to_decrease).
C10_WalkLength ==
  (Walked /\ Len(walk.metrics) >= 2) =>
    LET n == Len(walk.metrics)
    IN  /\ Len(walk.log) = n - 2
        /\ \A i \in 1..Len(walk.log) : walk.log[i].prev = walk.metrics[n - i][2]
        /\ n = 2 => (walk.adjusted = walk.constant /\ sched.constant = walk.constant)
        /\ walk.steps_to_decrease >= 1 =>
             \E k \in 0..((n - 2) \div walk.steps_to_decrease) :
               /\ k = NumDecreases(walk.log)
               /\ walk.adjusted = RDiv(walk.constant, RPow(walk.decrease_rate, k))
               /\ sched.constant = walk.adjusted

C10_Witness ==
  /\ Walked
  /\ Len(walk.metrics) = 5
  /\ Len(walk.log) = 3
  /\ walk.steps_to_decrease = 1
  /\ NumDecreases(walk.log) = 3

============================================================================
